---- MODULE Spec2Model ----
(***************************************************************************)
(* Model of scheduler.c of the miner safety gear firmware: the event       *)
(* scheduler (schedulerSetEvent*, getNextEvent), the temperature           *)
(* acquisition state machine (temperature_state_machine_bt) and the        *)
(* discovery state machine (Discovery_State_Machine).                      *)
(***************************************************************************)
EXTENDS Integers, Sequences, FiniteSets, TLC

VARIABLES
    \* ---- event scheduler -------------------------------------------------
    SchedulerEvents,   \* uint32_t SchedulerEvents (line 41)
    bt_signals,        \* signals handed to sl_bt_external_signal, not yet delivered
    pc,                \* position of the consumer inside getNextEvent
    ReturnEvent,       \* local ReturnEvent of getNextEvent (line 169)
    \* history of the scheduler, read by the properties only
    entryEvents,       \* SchedulerEvents when the running call was entered
    interleaved,       \* a posting happened since the running call was entered
    postCount,         \* per kind: postings since that kind was last consumed
    drainStart,        \* SchedulerEvents when the current undisturbed drain began
    drained,           \* values returned by the calls of the current drain
    \* ---- acquisition state machine ---------------------------------------
    temp_nextState,    \* static nextState of temperature_state_machine_bt (line 215)
    currentState,      \* local currentState of the last dispatch (line 220)
    evt,               \* the event the last dispatch was called with
    connection_open,               \* bleDataPtr->connection_open
    ok_to_send_htm_indications,    \* bleDataPtr->ok_to_send_htm_indications
    indication_in_flight,          \* bleDataPtr->indication_in_flight
    queue_depth,       \* entries of the indication queue (get_queue_depth)
    si7021_on,         \* the sensor is powered (si7021TurnOn / si7021TurnOff)
    display_tempvalue, \* text of the row DISPLAY_ROW_TEMPVALUE
    acts,              \* the calls the last dispatch made, in order
    temp_sc,           \* local sc (line 218): status of the attribute write and the send
    Si7021_data,       \* local Si7021_data of the last dispatch (line 217)
    temperature_reading, \* local temperature_reading of the last dispatch (line 216)
    htm_temperature_flt, \* uint32_t htm_temperature_flt (line 65)
    timer_pending,     \* a timed wait is armed and its compare match not yet delivered
    i2c_pending,       \* a bus transfer is issued and its completion not yet delivered
    \* history of the acquisition machine, read by the properties only
    pre,               \* session fields and display as the last dispatch found them
    cycleStep,         \* triggers of the measurement sequence dispatched in a row
    cycleTrace,        \* state reached and calls made at each of them
    \* ---- discovery state machine -----------------------------------------
    disc_nextState,    \* static nextState of Discovery_State_Machine (line 371)
    disc_currentState, \* local currentState of the last dispatch (line 375)
    disc_evt,          \* the event the last dispatch was called with
    serviceHandle,                 \* bleDataPtr->serviceHandle
    characteristicHandle,          \* bleDataPtr->characteristicHandle
    serviceHandleHTM,              \* bleDataPtr->serviceHandleHTM
    characteristicHandleHTM,       \* bleDataPtr->characteristicHandleHTM
    serviceHandleButton,           \* bleDataPtr->serviceHandleButton
    characteristicHandleButton,    \* bleDataPtr->characteristicHandleButton
    isIndicationOnButton,          \* bleDataPtr->isIndicationOnButton
    display_connection, \* text of the row DISPLAY_ROW_CONNECTION
    disc_acts,         \* the calls the last dispatch made, in order
    disc_sc,           \* local sc of the last dispatch (line 373): the status returned
    \* history of the discovery machine, read by the properties only
    disc_pre,          \* the reported handles as the last dispatch found them
    discStep           \* events of the discovery sequence dispatched in a row

schedVars == <<SchedulerEvents, bt_signals, pc, ReturnEvent,
               entryEvents, interleaved, postCount, drainStart, drained>>

acqVars == <<temp_nextState, currentState, evt, connection_open,
             ok_to_send_htm_indications, indication_in_flight, queue_depth,
             si7021_on, display_tempvalue, acts, temp_sc, Si7021_data,
             temperature_reading, htm_temperature_flt, timer_pending, i2c_pending,
             pre, cycleStep, cycleTrace>>

discVars == <<disc_nextState, disc_currentState, disc_evt, serviceHandle,
              characteristicHandle, serviceHandleHTM, characteristicHandleHTM,
              serviceHandleButton, characteristicHandleButton, isIndicationOnButton,
              display_connection, disc_acts, disc_sc, disc_pre, discStep>>

vars == <<schedVars, acqVars, discVars>>

\* ---------------------------------------------------------------- bounds
MaxPosts == 2      \* postCount saturates here
MaxDrain == 5      \* calls recorded in one drain
MaxExtSignals == 7 \* largest extsignals mask dispatched
MaxQueue == 2      \* capacity of the indication queue
MaxHandle == 2     \* largest handle the stack reports

\* ------------------------------------------------------------- constants
LETIMERUF_BIT_POS == 0
LETIMERCOMP1_BIT_POS == 1
I2C_TRANSFER_COMPLETE_BIT_POS == 2
PB0_BIT_POS == 3
PB1_BIT_POS == 4

SI7021_POR_TIME_US == 80000
SI7021_14B_CONVERSION_TIME_US == 10800

SL_STATUS_OK == "SL_STATUS_OK"
SL_STATUS_FAIL == "SL_STATUS_FAIL"
\* what a call of the stack may return
StatusCodes == {SL_STATUS_OK, SL_STATUS_FAIL}
\* sc while no call has assigned it
NoStatus == "none"

EVENT_NONE == "EVENT_NONE"
EVENT_LETIMER_UF == "EVENT_LETIMER_UF"
EVENT_LETIMER_COMP1 == "EVENT_LETIMER_COMP1"
EVENT_I2C_TRANSFER_COMPLETE == "EVENT_I2C_TRANSFER_COMPLETE"

\* ------------------------------------------------------ bit arithmetic
\* x & (1<<pos)
BitTest(x, pos) == (x \div (2 ^ pos)) % 2 = 1
\* x |= (1<<pos)
BitOr(x, pos) == IF BitTest(x, pos) THEN x ELSE x + 2 ^ pos
\* x &= ~(1<<pos)
BitClear(x, pos) == IF BitTest(x, pos) THEN x - 2 ^ pos ELSE x

\* sl_bt_external_signal(1<<pos): the stack ORs the signal into its pending set
sl_bt_external_signal(pos) == bt_signals' = BitOr(bt_signals, pos)

\* ---------------------------------------------- history bookkeeping
SchedKinds == {LETIMERUF_BIT_POS, LETIMERCOMP1_BIT_POS, I2C_TRANSFER_COMPLETE_BIT_POS}

Min(a, b) == IF a < b THEN a ELSE b

\* A posting of kind pos: counted, disturbs the running call and restarts the drain.
NotePost(pos) ==
    /\ postCount' = [postCount EXCEPT ![pos] = Min(@ + 1, MaxPosts)]
    /\ interleaved' = (interleaved \/ pc # "idle")
    /\ drainStart' = SchedulerEvents'
    /\ drained' = <<>>

\* ------------------------------------------------ interrupt-context posters
SetEventRaw(pos) == SchedulerEvents' = (2 ^ pos)

SetEvent(pos) == SchedulerEvents' = BitOr(SchedulerEvents, pos)

schedulerSetEventPB1 ==
    /\ sl_bt_external_signal(PB1_BIT_POS)
    /\ UNCHANGED <<SchedulerEvents, pc, ReturnEvent,
                   entryEvents, interleaved, postCount, drainStart, drained>>
    /\ UNCHANGED <<acqVars, discVars>>

schedulerSetEventPB0 ==
    /\ sl_bt_external_signal(PB0_BIT_POS)
    /\ UNCHANGED <<SchedulerEvents, pc, ReturnEvent,
                   entryEvents, interleaved, postCount, drainStart, drained>>
    /\ UNCHANGED <<acqVars, discVars>>

schedulerSetEventLETIMER0Comp1 ==
    /\ SetEvent(LETIMERCOMP1_BIT_POS)
    /\ sl_bt_external_signal(LETIMERCOMP1_BIT_POS)
    /\ NotePost(LETIMERCOMP1_BIT_POS)
    /\ UNCHANGED <<pc, ReturnEvent, entryEvents>>
    /\ UNCHANGED <<acqVars, discVars>>

schedulerSetEventLETIMER0UF ==
    /\ SetEvent(LETIMERUF_BIT_POS)
    /\ sl_bt_external_signal(LETIMERUF_BIT_POS)
    /\ NotePost(LETIMERUF_BIT_POS)
    /\ UNCHANGED <<pc, ReturnEvent, entryEvents>>
    /\ UNCHANGED <<acqVars, discVars>>

schedulerSetEventI2CTransferDone ==
    /\ SetEvent(I2C_TRANSFER_COMPLETE_BIT_POS)
    /\ sl_bt_external_signal(I2C_TRANSFER_COMPLETE_BIT_POS)
    /\ NotePost(I2C_TRANSFER_COMPLETE_BIT_POS)
    /\ UNCHANGED <<pc, ReturnEvent, entryEvents>>
    /\ UNCHANGED <<acqVars, discVars>>

\* The stack delivers the pending signals as one external-signal event.
BtStackDeliverSignals ==
    /\ bt_signals # 0
    /\ bt_signals' = 0
    /\ UNCHANGED <<SchedulerEvents, pc, ReturnEvent,
                   entryEvents, interleaved, postCount, drainStart, drained>>
    /\ UNCHANGED <<acqVars, discVars>>

\* ------------------------------------------------------------ getNextEvent
\* The consumer runs in the main context; each action below is one statement,
\* and a poster may run between any two of them.
histUnchanged ==
    /\ UNCHANGED <<entryEvents, interleaved, postCount, drainStart, drained>>
    /\ UNCHANGED <<acqVars, discVars>>

\* line 169
getNextEvent_Enter ==
    /\ pc = "idle"
    /\ Len(drained) < MaxDrain
    /\ ReturnEvent' = EVENT_NONE
    /\ pc' = "L179"
    /\ entryEvents' = SchedulerEvents
    /\ interleaved' = FALSE
    /\ UNCHANGED <<SchedulerEvents, bt_signals, postCount, drainStart, drained>>
    /\ UNCHANGED <<acqVars, discVars>>

getNextEvent_TestCompFirst ==
    /\ pc = "L179"
    /\ IF BitTest(SchedulerEvents, LETIMERCOMP1_BIT_POS)
         THEN ReturnEvent' = EVENT_LETIMER_COMP1 /\ pc' = "L188"
         ELSE ReturnEvent' = ReturnEvent /\ pc' = "L181"
    /\ UNCHANGED <<SchedulerEvents, bt_signals>>
    /\ histUnchanged

\* lines 179-180
getNextEvent_TestI2C ==
    /\ pc = "L179"
    /\ IF BitTest(SchedulerEvents, I2C_TRANSFER_COMPLETE_BIT_POS)
         THEN ReturnEvent' = EVENT_I2C_TRANSFER_COMPLETE /\ pc' = "L188"
         ELSE ReturnEvent' = ReturnEvent /\ pc' = "L181"
    /\ UNCHANGED <<SchedulerEvents, bt_signals>>
    /\ histUnchanged

\* lines 181-182
getNextEvent_TestComp1 ==
    /\ pc = "L181"
    /\ IF BitTest(SchedulerEvents, LETIMERCOMP1_BIT_POS)
         THEN ReturnEvent' = EVENT_LETIMER_COMP1 /\ pc' = "L188"
         ELSE ReturnEvent' = ReturnEvent /\ pc' = "L183"
    /\ UNCHANGED <<SchedulerEvents, bt_signals>>
    /\ histUnchanged

getNextEvent_TestUFNever ==
    /\ pc = "L183"
    /\ ReturnEvent' = ReturnEvent
    /\ pc' = "L188"
    /\ UNCHANGED <<SchedulerEvents, bt_signals>>
    /\ histUnchanged

\* lines 183-184
getNextEvent_TestUF ==
    /\ pc = "L183"
    /\ IF BitTest(SchedulerEvents, LETIMERUF_BIT_POS)
         THEN ReturnEvent' = EVENT_LETIMER_UF
         ELSE ReturnEvent' = ReturnEvent
    /\ pc' = "L188"
    /\ UNCHANGED <<SchedulerEvents, bt_signals>>
    /\ histUnchanged

\* the bit the switch of lines 189-199 clears for a value of ReturnEvent
ClearedBit(ev) ==
    CASE ev = EVENT_LETIMER_COMP1 -> LETIMERCOMP1_BIT_POS
      [] ev = EVENT_LETIMER_UF -> LETIMERUF_BIT_POS
      [] ev = EVENT_I2C_TRANSFER_COMPLETE -> I2C_TRANSFER_COMPLETE_BIT_POS

ClearEventWrongBit(ev) ==
    IF ev = EVENT_NONE THEN SchedulerEvents
    ELSE BitClear(SchedulerEvents, (ClearedBit(ev) + 1) % 3)

ClearEventFromStaleRead(ev) ==
    IF ev = EVENT_NONE THEN SchedulerEvents
    ELSE BitClear(entryEvents, ClearedBit(ev))

\* lines 189-199: SchedulerEvents after the switch
ClearEvent(ev) ==
    IF ev = EVENT_NONE THEN SchedulerEvents
    ELSE BitClear(SchedulerEvents, ClearedBit(ev))

\* lines 187-200: the critical section, one step since interrupts are disabled
getNextEvent_Critical ==
    /\ pc = "L188"
    /\ SchedulerEvents' = ClearEvent(ReturnEvent)
    /\ pc' = "L202"
    /\ postCount' = IF ReturnEvent = EVENT_NONE THEN postCount
                    ELSE [postCount EXCEPT ![ClearedBit(ReturnEvent)] = 0]
    /\ IF interleaved
         THEN drainStart' = SchedulerEvents' /\ drained' = <<>>
         ELSE UNCHANGED <<drainStart, drained>>
    /\ UNCHANGED <<bt_signals, ReturnEvent, entryEvents, interleaved>>
    /\ UNCHANGED <<acqVars, discVars>>

\* line 202
getNextEvent_Return ==
    /\ pc = "L202"
    /\ pc' = "idle"
    /\ drained' = IF interleaved THEN drained ELSE Append(drained, ReturnEvent)
    /\ UNCHANGED <<SchedulerEvents, bt_signals, ReturnEvent,
                   entryEvents, interleaved, postCount, drainStart>>
    /\ UNCHANGED <<acqVars, discVars>>

\* ------------------------------------------- acquisition state machine
stateIdle == "stateIdle"
waitForSi7021POR == "waitForSi7021POR"
waitForI2CWriteTransfer == "waitForI2CWriteTransfer"
waitForSi7021Conversion == "waitForSi7021Conversion"
waitForI2CReadTransfer == "waitForI2CReadTransfer"

State_t == {stateIdle, waitForSi7021POR, waitForI2CWriteTransfer,
            waitForSi7021Conversion, waitForI2CReadTransfer}

sl_bt_evt_system_external_signal_id == "sl_bt_evt_system_external_signal_id"
sl_bt_evt_connection_opened_id == "sl_bt_evt_connection_opened_id"
sl_bt_evt_connection_closed_id == "sl_bt_evt_connection_closed_id"
sl_bt_evt_gatt_procedure_completed_id == "sl_bt_evt_gatt_procedure_completed_id"
sl_bt_evt_system_boot_id == "sl_bt_evt_system_boot_id"

\* the events of the stack: an external-signal event carries a signal mask
OtherEventIds == {sl_bt_evt_connection_opened_id, sl_bt_evt_connection_closed_id,
                  sl_bt_evt_gatt_procedure_completed_id, sl_bt_evt_system_boot_id}

BtEvents ==
    [id : {sl_bt_evt_system_external_signal_id}, extsignals : 0 .. MaxExtSignals]
      \cup [id : OtherEventIds, extsignals : {0}]

NoEvent == [id |-> "none", extsignals |-> 0]

\* a call of a collaborator, with its numeric argument (0 when it has none)
Call(name, arg) == <<name, arg>>

PreconditionsIgnoreArmed(e, open, ok) ==
    /\ e.id = sl_bt_evt_system_external_signal_id
    /\ open = TRUE

PreconditionsIgnoreConnection(e, open, ok) ==
    /\ e.id = sl_bt_evt_system_external_signal_id
    /\ ok = TRUE

\* lines 227-229
AcqPreconditions(e, open, ok) ==
    /\ e.id = sl_bt_evt_system_external_signal_id
    /\ open = TRUE
    /\ ok = TRUE

TriggerBitAlwaysI2C(st) == I2C_TRANSFER_COMPLETE_BIT_POS

\* the bit each state tests: lines 237, 250, 261, 274, 286
AcqTriggerBit(st) ==
    CASE st = stateIdle -> LETIMERUF_BIT_POS
      [] st = waitForSi7021POR -> LETIMERCOMP1_BIT_POS
      [] st = waitForI2CWriteTransfer -> I2C_TRANSFER_COMPLETE_BIT_POS
      [] st = waitForSi7021Conversion -> LETIMERCOMP1_BIT_POS
      [] st = waitForI2CReadTransfer -> I2C_TRANSFER_COMPLETE_BIT_POS

SuccessorFallsThroughPOR(st) ==
    CASE st = stateIdle -> waitForI2CWriteTransfer
      [] st = waitForSi7021POR -> waitForI2CWriteTransfer
      [] st = waitForI2CWriteTransfer -> waitForSi7021Conversion
      [] st = waitForSi7021Conversion -> waitForI2CReadTransfer
      [] st = waitForI2CReadTransfer -> stateIdle

SuccessorSkipsConversion(st) ==
    CASE st = stateIdle -> waitForSi7021POR
      [] st = waitForSi7021POR -> waitForI2CWriteTransfer
      [] st = waitForI2CWriteTransfer -> waitForI2CReadTransfer
      [] st = waitForSi7021Conversion -> waitForI2CReadTransfer
      [] st = waitForI2CReadTransfer -> stateIdle

\* the state each state moves to on its trigger: lines 240, 252, 264, 276, 349
AcqSuccessor(st) ==
    CASE st = stateIdle -> waitForSi7021POR
      [] st = waitForSi7021POR -> waitForI2CWriteTransfer
      [] st = waitForI2CWriteTransfer -> waitForSi7021Conversion
      [] st = waitForSi7021Conversion -> waitForI2CReadTransfer
      [] st = waitForI2CReadTransfer -> stateIdle

\* lines 325-326: the condition under which the indication is sent at once
SendIndicationNow(inflight, depth) ==
    ~((inflight = FALSE) \/ (depth > 0))

\* write_queue of the indication queue; a full queue takes no further entry
write_queue(depth) == IF depth < MaxQueue THEN depth + 1 ELSE depth

\* lines 322-348: the calls after the attribute write
PublishCalls(open, ok, inflight, depth) ==
    IF (open = TRUE) /\ (ok = TRUE)
      THEN (IF SendIndicationNow(inflight, depth)
              THEN <<Call("sl_bt_gatt_server_send_indication", 5)>>
              ELSE <<Call("write_queue", 5)>>)
           \o <<Call("displayPrintf_Temp", 0)>>
      ELSE <<Call("displayPrintf_clear", 0)>>

AcqCallsWriteAlsoArmsTimer(st, open, ok, inflight, depth) ==
    CASE st = stateIdle ->
           <<Call("si7021TurnOn", 0), Call("timerWaitUs_irq", SI7021_POR_TIME_US)>>
      [] st = waitForSi7021POR ->
           <<Call("I2C_Write_Data_itr", 0),
             Call("timerWaitUs_irq", SI7021_14B_CONVERSION_TIME_US)>>
      [] st = waitForI2CWriteTransfer ->
           <<Call("NVIC_DisableIRQ", 0),
             Call("timerWaitUs_irq", SI7021_14B_CONVERSION_TIME_US)>>
      [] st = waitForSi7021Conversion ->
           <<Call("I2C_Read_Data_irq", 0)>>
      [] st = waitForI2CReadTransfer ->
           <<Call("NVIC_DisableIRQ", 0), Call("si7021TurnOff", 0),
             Call("I2C_Get_Data", 0),
             Call("sl_bt_gatt_server_write_attribute_value", 5)>>
           \o PublishCalls(open, ok, inflight, depth)

\* the calls of each state's transition, in order: lines 238-239, 251, 262-263,
\* 275, 287-348
AcqCalls(st, open, ok, inflight, depth) ==
    CASE st = stateIdle ->
           <<Call("si7021TurnOn", 0), Call("timerWaitUs_irq", SI7021_POR_TIME_US)>>
      [] st = waitForSi7021POR ->
           <<Call("I2C_Write_Data_itr", 0)>>
      [] st = waitForI2CWriteTransfer ->
           <<Call("NVIC_DisableIRQ", 0),
             Call("timerWaitUs_irq", SI7021_14B_CONVERSION_TIME_US)>>
      [] st = waitForSi7021Conversion ->
           <<Call("I2C_Read_Data_irq", 0)>>
      [] st = waitForI2CReadTransfer ->
           <<Call("NVIC_DisableIRQ", 0), Call("si7021TurnOff", 0),
             Call("I2C_Get_Data", 0),
             Call("sl_bt_gatt_server_write_attribute_value", 5)>>
           \o PublishCalls(open, ok, inflight, depth)

AcqAdvanceOnlyOnSuccess(st, scWrite, scInd) ==
    IF SL_STATUS_FAIL \in {scWrite, scInd} THEN st ELSE AcqSuccessor(st)

\* nextState after a transition whose calls returned scWrite and scInd: the write's
\* status is never read (lines 304-309), the send's is only logged (lines 335-337)
AcqAdvance(st, scWrite, scInd) == AcqSuccessor(st)

Si7021PowerNeverOff(st, on) == IF st = stateIdle THEN TRUE ELSE on

\* the sensor's power after the transition out of st: si7021TurnOn (line 238),
\* si7021TurnOff (line 288)
Si7021Power(st, on) ==
    IF st = stateIdle THEN TRUE
    ELSE IF st = waitForI2CReadTransfer THEN FALSE
    ELSE on

\* the range of uint16_t Si7021_data (line 217)
UINT16_MAX == 65535

\* the raw code I2C_Get_Data returns in the acquisition runs
RawSamples == {27273}

\* line 294 in exact arithmetic: (raw * 175.72) / 65536 - 46.85 as the fraction
\* DecodeNum(raw) / DecodeDen
DecodeNum(raw) == raw * 17572 - 4685 * 65536
DecodeDen == 100 * 65536

\* truncation toward zero
TruncDiv(n, d) == IF n >= 0 THEN n \div d ELSE -((-n) \div d)

\* a uint32_t as its two 16-bit halves; U32(n) for 0 <= n < 2^31, U32Wrap(t) the
\* value 2^32 + t of a negative t
U32(n) == [hi |-> n \div 65536, lo |-> n % 65536]
U32Wrap(t) == [hi |-> 65535, lo |-> 65536 + t]

\* uint32_t multiplication by a 16-bit factor: the product modulo 2^32
U32Times(u, k) ==
    LET low == u.lo * k
    IN  [hi |-> ((u.hi * k) + (low \div 65536)) % 65536, lo |-> low % 65536]

\* line 294: the double is converted to the uint32_t temperature_reading. The
\* fraction is dropped; a value of -1 or less has no uint32_t and the conversion
\* is undefined: a saturating conversion gives 0, a wrapping one the value
\* modulo 2^32.
DecodeReading(raw) ==
    LET t == TruncDiv(DecodeNum(raw), DecodeDen)
    IN  IF t >= 0 THEN {U32(t)} ELSE {U32(0), U32Wrap(t)}

\* INT32_TO_FLOAT(m, e): the low 24 bits of m below the 8 bits of the exponent e
INT32_TO_FLOAT(m, e) == [hi |-> ((e % 256) * 256) + (m.hi % 256), lo |-> m.lo]

\* line 301: the uint32_t product temperature_reading * 1000, exponent -3
EncodeReading(reading) == INT32_TO_FLOAT(U32Times(reading, 1000), 0 - 3)

ClearDisplayOnlyWhenBothFalse(open, ok) == (open = FALSE) /\ (ok = FALSE)

\* lines 359-360
ClearDisplayAtEnd(open, ok) == (open = FALSE) \/ (ok = FALSE)

\* the measurement sequence of a whole cycle, as signal masks
CycleTriggers ==
    <<2 ^ LETIMERUF_BIT_POS, 2 ^ LETIMERCOMP1_BIT_POS, 2 ^ I2C_TRANSFER_COMPLETE_BIT_POS,
      2 ^ LETIMERCOMP1_BIT_POS, 2 ^ I2C_TRANSFER_COMPLETE_BIT_POS>>

\* cycleStep / cycleTrace follow the dispatches that feed CycleTriggers, in order
\* and with nothing else in between, to a machine that was in stateIdle, under
\* the preconditions.
NoteCycle(e) ==
    LET feeds(k) == /\ e.id = sl_bt_evt_system_external_signal_id
                    /\ connection_open /\ ok_to_send_htm_indications
                    /\ e.extsignals = CycleTriggers[k]
        entry == [state |-> temp_nextState', calls |-> acts']
    IN  IF cycleStep \in 1 .. (Len(CycleTriggers) - 1) /\ feeds(cycleStep + 1)
          THEN cycleStep' = cycleStep + 1 /\ cycleTrace' = Append(cycleTrace, entry)
        ELSE IF temp_nextState = stateIdle /\ feeds(1)
          THEN cycleStep' = 1 /\ cycleTrace' = <<entry>>
        ELSE cycleStep' = 0 /\ cycleTrace' = <<>>

\* lines 213-363
temperature_state_machine_bt(e, raw, reading, scWrite, scInd) ==
    LET st == temp_nextState
        open == connection_open
        ok == ok_to_send_htm_indications
        fire == AcqPreconditions(e, open, ok)
                  /\ BitTest(e.extsignals, AcqTriggerBit(st))
        publish == fire /\ st = waitForI2CReadTransfer /\ (open = TRUE) /\ (ok = TRUE)
        sendNow == SendIndicationNow(indication_in_flight, queue_depth)
        clear == ClearDisplayAtEnd(open, ok)
        readDone == fire /\ st = waitForI2CReadTransfer
        status == [write |-> IF readDone THEN scWrite ELSE NoStatus,
                   ind |-> IF publish /\ sendNow THEN scInd ELSE NoStatus]
    IN  /\ currentState' = st
        /\ temp_sc' = status
        /\ Si7021_data' = IF readDone THEN raw ELSE 0
        /\ temperature_reading' = IF readDone THEN reading ELSE U32(0)
        /\ htm_temperature_flt' = IF readDone THEN EncodeReading(reading)
                                  ELSE htm_temperature_flt
        /\ evt' = e
        /\ pre' = [open |-> open, ok |-> ok, inflight |-> indication_in_flight,
                   depth |-> queue_depth, display |-> display_tempvalue]
        /\ temp_nextState' = IF fire THEN AcqAdvance(st, status.write, status.ind) ELSE st
        /\ si7021_on' = IF fire THEN Si7021Power(st, si7021_on) ELSE si7021_on
        /\ indication_in_flight' = IF publish /\ sendNow THEN TRUE
                                   ELSE indication_in_flight
        /\ queue_depth' = IF publish /\ ~sendNow THEN write_queue(queue_depth)
                          ELSE queue_depth
        /\ display_tempvalue' =
               IF clear THEN ""
               ELSE IF fire /\ st = waitForI2CReadTransfer
                      THEN (IF publish THEN "Temp" ELSE "")
               ELSE display_tempvalue
        /\ acts' = (IF fire
                      THEN AcqCalls(st, open, ok, indication_in_flight, queue_depth)
                      ELSE <<>>)
                   \o (IF clear THEN <<Call("displayPrintf_clear", 0)>> ELSE <<>>)
        /\ NoteCycle(e)
        /\ UNCHANGED <<connection_open, ok_to_send_htm_indications>>

\* what the collaborators hand back to a dispatch: the bus driver's data and the
\* stack's statuses, in the states where the machine can ask for them
ReadInputs == IF temp_nextState = waitForI2CReadTransfer THEN RawSamples ELSE {0}
WriteStatuses ==
    IF temp_nextState = waitForI2CReadTransfer THEN StatusCodes ELSE {NoStatus}
SendStatuses ==
    IF temp_nextState = waitForI2CReadTransfer
         /\ SendIndicationNow(indication_in_flight, queue_depth)
      THEN StatusCodes ELSE {NoStatus}

DispatchAcquisition ==
    /\ \E e \in BtEvents, raw \in ReadInputs, scWrite \in WriteStatuses,
          scInd \in SendStatuses :
          \E reading \in (IF temp_nextState = waitForI2CReadTransfer
                             THEN DecodeReading(raw) ELSE {U32(0)}) :
            temperature_state_machine_bt(e, raw, reading, scWrite, scInd)
    /\ UNCHANGED <<timer_pending, i2c_pending>>
    /\ UNCHANGED <<schedVars, discVars>>

\* ---- the timer and the bus as the machine's calls drive them ----
ArmsTimer(calls) == \E i \in 1 .. Len(calls) : calls[i][1] = "timerWaitUs_irq"

StartsTransfer(calls) ==
    \E i \in 1 .. Len(calls) : calls[i][1] \in {"I2C_Write_Data_itr", "I2C_Read_Data_irq"}

\* an external-signal event with the bits of mask reaches the machine, which may
\* arm the next wait or issue the next transfer
HwDeliver(mask) ==
    /\ \E raw \in ReadInputs, scWrite \in WriteStatuses, scInd \in SendStatuses :
          \E reading \in (IF temp_nextState = waitForI2CReadTransfer
                             THEN DecodeReading(raw) ELSE {U32(0)}) :
            temperature_state_machine_bt(
                [id |-> sl_bt_evt_system_external_signal_id, extsignals |-> mask],
                raw, reading, scWrite, scInd)
    /\ timer_pending' = IF ArmsTimer(acts') THEN TRUE
                        ELSE IF BitTest(mask, LETIMERCOMP1_BIT_POS) THEN FALSE
                        ELSE timer_pending
    /\ i2c_pending' = IF StartsTransfer(acts') THEN TRUE
                      ELSE IF BitTest(mask, I2C_TRANSFER_COMPLETE_BIT_POS) THEN FALSE
                      ELSE i2c_pending

\* the periodic underflow
HwDeliverUnderflow ==
    /\ HwDeliver(2 ^ LETIMERUF_BIT_POS)
    /\ UNCHANGED <<schedVars, discVars>>

\* the compare match of an armed wait arrives once
HwDeliverCompareMatch ==
    /\ timer_pending
    /\ HwDeliver(2 ^ LETIMERCOMP1_BIT_POS)
    /\ UNCHANGED <<schedVars, discVars>>

\* the completion of an issued transfer arrives once
HwDeliverTransferDone ==
    /\ i2c_pending
    /\ HwDeliver(2 ^ I2C_TRANSFER_COMPLETE_BIT_POS)
    /\ UNCHANGED <<schedVars, discVars>>

\* the bits of the completions that are due
DueSignals ==
    (IF timer_pending THEN 2 ^ LETIMERCOMP1_BIT_POS ELSE 0)
      + (IF i2c_pending THEN 2 ^ I2C_TRANSFER_COMPLETE_BIT_POS ELSE 0)

\* the stack hands over the underflow and the completions that are due as one
\* event (sl_bt_external_signal ORs the signals until the event is delivered)
HwDeliverMerged ==
    /\ DueSignals # 0
    /\ HwDeliver(2 ^ LETIMERUF_BIT_POS + DueSignals)
    /\ UNCHANGED <<schedVars, discVars>>

\* ---- the session context, changed by the stack's event handler ----
acqOnlySession ==
    /\ UNCHANGED <<temp_nextState, currentState, evt, si7021_on, display_tempvalue,
                   acts, temp_sc, Si7021_data, temperature_reading, htm_temperature_flt,
                   timer_pending, i2c_pending, pre, cycleStep, cycleTrace>>
    /\ UNCHANGED <<schedVars, discVars>>

BleConnectionChanged ==
    /\ connection_open' = ~connection_open
    /\ UNCHANGED <<ok_to_send_htm_indications, indication_in_flight, queue_depth>>
    /\ acqOnlySession

BleIndicationsChanged ==
    /\ ok_to_send_htm_indications' = ~ok_to_send_htm_indications
    /\ UNCHANGED <<connection_open, indication_in_flight, queue_depth>>
    /\ acqOnlySession

\* the peer confirmed the indication in flight
BleIndicationConfirmed ==
    /\ indication_in_flight
    /\ indication_in_flight' = FALSE
    /\ UNCHANGED <<connection_open, ok_to_send_htm_indications, queue_depth>>
    /\ acqOnlySession

\* the handler sends the oldest queued indication
BleQueueDrained ==
    /\ queue_depth > 0
    /\ ~indication_in_flight
    /\ queue_depth' = queue_depth - 1
    /\ indication_in_flight' = TRUE
    /\ UNCHANGED <<connection_open, ok_to_send_htm_indications>>
    /\ acqOnlySession

\* the acquisition machine and the session before the first dispatch
AcqStateInit ==
    /\ temp_nextState = stateIdle
    /\ currentState = stateIdle
    /\ evt = NoEvent
    /\ connection_open = FALSE
    /\ ok_to_send_htm_indications = FALSE
    /\ indication_in_flight = FALSE
    /\ queue_depth = 0
    /\ si7021_on = FALSE
    /\ display_tempvalue = ""
    /\ acts = <<>>
    /\ temp_sc = [write |-> NoStatus, ind |-> NoStatus]
    /\ temperature_reading = U32(0)
    /\ htm_temperature_flt = U32(0)
    /\ timer_pending = FALSE
    /\ i2c_pending = FALSE
    /\ pre = [open |-> FALSE, ok |-> FALSE, inflight |-> FALSE,
              depth |-> 0, display |-> ""]
    /\ cycleStep = 0
    /\ cycleTrace = <<>>

AcqInit == AcqStateInit /\ Si7021_data = 0

\* ---- the decode of lines 290-302 on its own, for every raw code ----
\* the raw code I2C_Get_Data has returned (line 290)
DecodeInit == AcqStateInit /\ Si7021_data \in 0 .. UINT16_MAX

\* lines 294-302: decode the raw code and encode the reading, once
DecodeAndEncode ==
    /\ htm_temperature_flt = U32(0)
    /\ \E reading \in DecodeReading(Si7021_data) :
          /\ temperature_reading' = reading
          /\ htm_temperature_flt' = EncodeReading(reading)
    /\ UNCHANGED <<temp_nextState, currentState, evt, connection_open,
                   ok_to_send_htm_indications, indication_in_flight, queue_depth,
                   si7021_on, display_tempvalue, acts, temp_sc, Si7021_data,
                   timer_pending, i2c_pending, pre, cycleStep, cycleTrace>>
    /\ UNCHANGED <<schedVars, discVars>>

\* --------------------------------------------- discovery state machine
State_1 == "State_1"
State_2 == "State_2"
State_3 == "State_3"
State_4 == "State_4"
State_5 == "State_5"
State_6 == "State_6"
State_7 == "State_7"

Discovery_States_t == {State_1, State_2, State_3, State_4, State_5, State_6, State_7}

\* lines 71, 73, 78-83, 86-91: the UUIDs, as the bytes sent
thermo_service == <<9, 24>>
thermo_char == <<28, 42>>
button_service == <<137, 98, 19, 45, 42, 101, 236, 135, 62, 67, 200, 56, 1, 0, 0, 0>>
button_char == <<137, 98, 19, 45, 42, 101, 236, 135, 62, 67, 200, 56, 2, 0, 0, 0>>

\* the events dispatched to the discovery machine
DiscEvents == {e \in BtEvents : e.extsignals = 0}

\* a call of the stack or the display: the handle and the UUID it is given
DCall(api, handle, uuid) == [api |-> api, handle |-> handle, uuid |-> uuid]

DiscTriggerState7OnCompleted(st) ==
    IF st = State_1 THEN sl_bt_evt_connection_opened_id
    ELSE sl_bt_evt_gatt_procedure_completed_id

DiscTriggerClosedAdvances(st) ==
    IF st = State_1 THEN sl_bt_evt_connection_opened_id
    ELSE IF st \in {State_4, State_7} THEN sl_bt_evt_connection_closed_id
    ELSE sl_bt_evt_gatt_procedure_completed_id

\* the event each state waits for: lines 385, 405, 426, 447, 467, 492, 511
DiscTrigger(st) ==
    CASE st = State_1 -> sl_bt_evt_connection_opened_id
      [] st \in {State_2, State_3, State_4, State_5, State_6} ->
           sl_bt_evt_gatt_procedure_completed_id
      [] st = State_7 -> sl_bt_evt_connection_closed_id

SuccessorSkipsButtonService(st) ==
    CASE st = State_1 -> State_2
      [] st = State_2 -> State_3
      [] st = State_3 -> State_4
      [] st = State_4 -> State_6
      [] st = State_5 -> State_6
      [] st = State_6 -> State_7
      [] st = State_7 -> State_1

\* the state each state moves to: lines 394, 415, 436, 456, 478, 502, 512
DiscSuccessor(st) ==
    CASE st = State_1 -> State_2
      [] st = State_2 -> State_3
      [] st = State_3 -> State_4
      [] st = State_4 -> State_5
      [] st = State_5 -> State_6
      [] st = State_6 -> State_7
      [] st = State_7 -> State_1

DiscAdvanceOnlyOnSuccess(st, sc) ==
    IF sc = SL_STATUS_OK \/ sc = NoStatus THEN DiscSuccessor(st) ELSE st

\* nextState after a transition whose call returned sc: the status is only
\* logged (lines 390-394, 412-415, 433-436, 453-456, 474-478, 498-502)
DiscAdvance(st, sc) == DiscSuccessor(st)

\* the calls of each state's transition: lines 386-388, 407-410, 429-431,
\* 448-451, 469-472, 494-496; svc and chr are the handles the stack last reported
DiscCalls(st, svc, chr) ==
    CASE st = State_1 ->
           <<DCall("sl_bt_gatt_discover_primary_services_by_uuid", 0, thermo_service)>>
      [] st = State_2 ->
           <<DCall("sl_bt_gatt_discover_characteristics_by_uuid", svc, thermo_char)>>
      [] st = State_3 ->
           <<DCall("sl_bt_gatt_set_characteristic_notification", chr, <<>>)>>
      [] st = State_4 ->
           <<DCall("displayPrintf", 0, <<>>),
             DCall("sl_bt_gatt_discover_primary_services_by_uuid", 0, button_service)>>
      [] st = State_5 ->
           <<DCall("sl_bt_gatt_discover_characteristics_by_uuid", svc, button_char)>>
      [] st = State_6 ->
           <<DCall("sl_bt_gatt_set_characteristic_notification", chr, <<>>)>>
      [] st = State_7 -> <<>>

\* the discovery sequence: connection opened, then five completed procedures
DiscoveryTriggers ==
    <<sl_bt_evt_connection_opened_id,
      sl_bt_evt_gatt_procedure_completed_id, sl_bt_evt_gatt_procedure_completed_id,
      sl_bt_evt_gatt_procedure_completed_id, sl_bt_evt_gatt_procedure_completed_id,
      sl_bt_evt_gatt_procedure_completed_id>>

\* discStep counts the dispatches that feed DiscoveryTriggers, in order and with
\* no other dispatch in between, to a machine that was in State_1.
NoteDiscovery(e) ==
    IF discStep \in 1 .. (Len(DiscoveryTriggers) - 1)
         /\ e.id = DiscoveryTriggers[discStep + 1]
      THEN discStep' = discStep + 1
    ELSE IF disc_nextState = State_1 /\ e.id = DiscoveryTriggers[1]
      THEN discStep' = 1
    ELSE discStep' = 0

\* lines 368-517
Discovery_State_Machine(e, status) ==
    LET st == disc_nextState
        fire == e.id = DiscTrigger(st)
        sc == IF fire /\ st # State_7 THEN status ELSE NoStatus
    IN  /\ disc_currentState' = st
        /\ disc_evt' = e
        /\ disc_sc' = sc
        /\ disc_pre' = [service |-> serviceHandle,
                        characteristic |-> characteristicHandle]
        /\ disc_nextState' = IF fire THEN DiscAdvance(st, sc) ELSE st
        /\ serviceHandleHTM' =
               IF fire /\ st = State_2 THEN serviceHandle ELSE serviceHandleHTM
        /\ characteristicHandleHTM' =
               IF fire /\ st = State_3 THEN characteristicHandle
               ELSE characteristicHandleHTM
        /\ serviceHandleButton' =
               IF fire /\ st = State_5 THEN serviceHandle ELSE serviceHandleButton
        /\ characteristicHandleButton' =
               IF fire /\ st = State_6 THEN characteristicHandle
               ELSE characteristicHandleButton
        /\ isIndicationOnButton' =
               IF fire /\ st = State_6 THEN TRUE ELSE isIndicationOnButton
        /\ display_connection' =
               IF fire /\ st = State_4 THEN "Handling Indications"
               ELSE display_connection
        /\ disc_acts' = IF fire THEN DiscCalls(st, serviceHandle, characteristicHandle)
                        ELSE <<>>
        /\ NoteDiscovery(e)
        /\ UNCHANGED <<serviceHandle, characteristicHandle>>

\* what the stack hands back to a dispatch of e: a status where a call is made
DiscStatuses(e) ==
    IF e.id = DiscTrigger(disc_nextState) /\ disc_nextState # State_7
      THEN StatusCodes ELSE {NoStatus}

DispatchDiscovery ==
    /\ \E e \in DiscEvents :
          \E status \in DiscStatuses(e) : Discovery_State_Machine(e, status)
    /\ UNCHANGED <<schedVars, acqVars>>

\* ---- the handles the stack's event handler stores as results arrive ----
BleServiceFound ==
    /\ \E h \in 1 .. MaxHandle : serviceHandle' = h
    /\ UNCHANGED <<disc_nextState, disc_currentState, disc_evt, characteristicHandle,
                   serviceHandleHTM, characteristicHandleHTM, serviceHandleButton,
                   characteristicHandleButton, isIndicationOnButton,
                   display_connection, disc_acts, disc_sc, disc_pre, discStep>>
    /\ UNCHANGED <<schedVars, acqVars>>

BleCharacteristicFound ==
    /\ \E h \in 1 .. MaxHandle : characteristicHandle' = h
    /\ UNCHANGED <<disc_nextState, disc_currentState, disc_evt, serviceHandle,
                   serviceHandleHTM, characteristicHandleHTM, serviceHandleButton,
                   characteristicHandleButton, isIndicationOnButton,
                   display_connection, disc_acts, disc_sc, disc_pre, discStep>>
    /\ UNCHANGED <<schedVars, acqVars>>

DiscInit ==
    /\ disc_nextState = State_1
    /\ disc_currentState = State_1
    /\ disc_evt = NoEvent
    /\ serviceHandle = 0
    /\ characteristicHandle = 0
    /\ serviceHandleHTM = 0
    /\ characteristicHandleHTM = 0
    /\ serviceHandleButton = 0
    /\ characteristicHandleButton = 0
    /\ isIndicationOnButton = FALSE
    /\ display_connection = ""
    /\ disc_acts = <<>>
    /\ disc_sc = NoStatus
    /\ disc_pre = [service |-> 0, characteristic |-> 0]
    /\ discStep = 0

\* ------------------------------------------------------- specification
SchedInit ==
    /\ SchedulerEvents = 0
    /\ bt_signals = 0
    /\ pc = "idle"
    /\ ReturnEvent = EVENT_NONE
    /\ entryEvents = 0
    /\ interleaved = FALSE
    /\ postCount = [k \in SchedKinds |-> 0]
    /\ drainStart = 0
    /\ drained = <<>>

Init == SchedInit /\ AcqInit /\ DiscInit

Next ==
    \/ schedulerSetEventPB1
    \/ schedulerSetEventPB0
    \/ schedulerSetEventLETIMER0Comp1
    \/ schedulerSetEventLETIMER0UF
    \/ schedulerSetEventI2CTransferDone
    \/ BtStackDeliverSignals
    \/ getNextEvent_Enter
    \/ getNextEvent_TestI2C
    \/ getNextEvent_TestComp1
    \/ getNextEvent_TestUF
    \/ getNextEvent_Critical
    \/ getNextEvent_Return

Spec == Init /\ [][Next]_vars

AcqNext ==
    \/ DispatchAcquisition
    \/ BleConnectionChanged
    \/ BleIndicationsChanged
    \/ BleIndicationConfirmed
    \/ BleQueueDrained

SpecAcq == Init /\ [][AcqNext]_vars

DiscNext ==
    \/ DispatchDiscovery
    \/ BleServiceFound
    \/ BleCharacteristicFound

SpecDisc == Init /\ [][DiscNext]_vars

\* the main loop calls getNextEvent again and again: the consumer's statements
\* are taken whenever they stay enabled; the interrupts fire or not
getNextEvent ==
    \/ getNextEvent_Enter
    \/ getNextEvent_TestI2C
    \/ getNextEvent_TestComp1
    \/ getNextEvent_TestUF
    \/ getNextEvent_Critical
    \/ getNextEvent_Return

SpecLive == Init /\ [][Next]_vars /\ WF_vars(getNextEvent)

\* the acquisition machine fed by the timer and the bus: every completion that is
\* due is delivered, the session changes or not
AcqHwNext ==
    \/ HwDeliverUnderflow
    \/ HwDeliverCompareMatch
    \/ HwDeliverTransferDone
    \/ HwDeliverMerged
    \/ BleConnectionChanged
    \/ BleIndicationsChanged
    \/ BleIndicationConfirmed
    \/ BleQueueDrained

SpecAcqHw ==
    /\ Init
    /\ [][AcqHwNext]_vars
    /\ WF_vars(HwDeliverUnderflow)
    /\ WF_vars(HwDeliverCompareMatch)
    /\ WF_vars(HwDeliverTransferDone)

DecodeNext == DecodeAndEncode

InitDecode == SchedInit /\ DecodeInit /\ DiscInit

SpecDecode == InitDecode /\ [][DecodeNext]_vars

\* ------------------------------------------------ properties: scheduler
\* the bit of an event kind, and the kinds pending in a set by priority
KindBit(ev) ==
    CASE ev = EVENT_I2C_TRANSFER_COMPLETE -> I2C_TRANSFER_COMPLETE_BIT_POS
      [] ev = EVENT_LETIMER_COMP1 -> LETIMERCOMP1_BIT_POS
      [] ev = EVENT_LETIMER_UF -> LETIMERUF_BIT_POS

PriorityOrder == <<EVENT_I2C_TRANSFER_COMPLETE, EVENT_LETIMER_COMP1, EVENT_LETIMER_UF>>

PendingByPriority(s) ==
    SelectSeq(PriorityOrder, LAMBDA ev : BitTest(s, KindBit(ev)))

AllBits == 0 .. PB1_BIT_POS

\* C1: a call of getNextEvent that no posting interleaves returns the first kind
\* pending at entry in the order I2C-complete > COMP1 > UF (EVENT_NONE when none
\* is pending), clears that kind's bit and leaves every other bit as it was.
C1_ConsumeHighestPriority ==
    (pc = "L202" /\ ~interleaved) =>
        LET pending == PendingByPriority(entryEvents) IN
        IF pending = <<>>
          THEN ReturnEvent = EVENT_NONE /\ SchedulerEvents = entryEvents
          ELSE /\ ReturnEvent = pending[1]
               /\ \A b \in AllBits :
                    BitTest(SchedulerEvents, b) =
                        (BitTest(entryEvents, b) /\ b # KindBit(pending[1]))

C1_Witness ==
    /\ pc = "L202" /\ ~interleaved
    /\ entryEvents = 7
    /\ ReturnEvent = EVENT_I2C_TRANSFER_COMPLETE
    /\ SchedulerEvents = 3

\* C2: the pending set is the OR of the bits of the kinds posted since their last
\* consume, however often each was posted, and a kind is only ever consumed when
\* it was posted since its last consume.
C2_PendingIsOrOfPosted ==
    /\ \A k \in SchedKinds : BitTest(SchedulerEvents, k) = (postCount[k] > 0)
    /\ \A b \in AllBits \ SchedKinds : ~BitTest(SchedulerEvents, b)
    /\ SchedulerEvents \in 0 .. 7
    /\ (pc = "L188" /\ ReturnEvent # EVENT_NONE) => postCount[KindBit(ReturnEvent)] > 0

C2_Witness ==
    /\ postCount[LETIMERCOMP1_BIT_POS] = 2
    /\ postCount[I2C_TRANSFER_COMPLETE_BIT_POS] = 1
    /\ SchedulerEvents = 6

\* C3: with no posting in between, successive calls return the kinds pending at
\* the start once each in priority order and EVENT_NONE from then on, and between
\* calls exactly the kinds not yet returned are pending.
C3_DrainLoop ==
    LET order == PendingByPriority(drainStart)
        k == Len(order)
    IN  /\ \A i \in 1 .. Len(drained) :
               drained[i] = IF i <= k THEN order[i] ELSE EVENT_NONE
        /\ pc = "idle" =>
               \A b \in AllBits :
                   BitTest(SchedulerEvents, b) =
                       \E i \in (Len(drained) + 1) .. k : KindBit(order[i]) = b

C3_Witness ==
    /\ drainStart = 7
    /\ Len(drained) = 5
    /\ pc = "idle"
    /\ SchedulerEvents = 0

\* ------------------------------------- properties: acquisition machine
\* the trigger of each state in the transition table
OwnTrigger(st) ==
    CASE st = stateIdle -> LETIMERUF_BIT_POS
      [] st = waitForSi7021POR -> LETIMERCOMP1_BIT_POS
      [] st = waitForI2CWriteTransfer -> I2C_TRANSFER_COMPLETE_BIT_POS
      [] st = waitForSi7021Conversion -> LETIMERCOMP1_BIT_POS
      [] st = waitForI2CReadTransfer -> I2C_TRANSFER_COMPLETE_BIT_POS

CallNames(calls) == {calls[i][1] : i \in 1 .. Len(calls)}

CountCalls(calls, name) == Cardinality({i \in 1 .. Len(calls) : calls[i][1] = name})

DisplayCalls == {"displayPrintf_Temp", "displayPrintf_clear"}

\* the last dispatch made no power, timer, bus, attribute, indication or queue call
NoHardwareCall == CallNames(acts) \subseteq DisplayCalls

Dispatched == evt # NoEvent

\* the three preconditions as the last dispatch found them
LastPreconditions ==
    /\ evt.id = sl_bt_evt_system_external_signal_id
    /\ pre.open
    /\ pre.ok

ExpectedCycleStates ==
    <<waitForSi7021POR, waitForI2CWriteTransfer, waitForSi7021Conversion,
      waitForI2CReadTransfer, stateIdle>>

ExpectedCycleCalls ==
    <<  <<Call("si7021TurnOn", 0), Call("timerWaitUs_irq", 80000)>>,
        <<Call("I2C_Write_Data_itr", 0)>>,
        <<Call("NVIC_DisableIRQ", 0), Call("timerWaitUs_irq", 10800)>>,
        <<Call("I2C_Read_Data_irq", 0)>>,
        <<Call("NVIC_DisableIRQ", 0), Call("si7021TurnOff", 0),
          Call("I2C_Get_Data", 0),
          Call("sl_bt_gatt_server_write_attribute_value", 5)>>  >>

\* C4: fed UF, COMP1, I2C, COMP1, I2C under the preconditions from stateIdle, the
\* machine goes through POR, write, conversion, read and back to stateIdle, and
\* makes at each step the calls of that row of the table (the last step powers
\* the sensor off and writes the attribute, then indicates or queues and shows
\* the reading, and starts no timer or transfer).
C4_CycleVisitsStatesInOrder ==
    /\ Len(cycleTrace) = cycleStep
    /\ cycleStep > 0 => temp_nextState = ExpectedCycleStates[cycleStep]
    /\ \A i \in 1 .. cycleStep :
         /\ cycleTrace[i].state = ExpectedCycleStates[i]
         /\ Len(cycleTrace[i].calls) >= Len(ExpectedCycleCalls[i])
         /\ SubSeq(cycleTrace[i].calls, 1, Len(ExpectedCycleCalls[i])) = ExpectedCycleCalls[i]
         /\ i < 5 => cycleTrace[i].calls = ExpectedCycleCalls[i]
         /\ i = 5 => /\ Len(cycleTrace[i].calls) = 6
                     /\ cycleTrace[i].calls[5][1] \in
                          {"sl_bt_gatt_server_send_indication", "write_queue"}
                     /\ cycleTrace[i].calls[6] = Call("displayPrintf_Temp", 0)

C4_Witness ==
    /\ cycleStep = 5
    /\ temp_nextState = stateIdle
    /\ ~si7021_on

\* C5: an external-signal event without the current state's trigger bit leaves the
\* state as it is and starts nothing, so a state changes only in a dispatch of an
\* external-signal event that carries its own trigger bit.
C5_OutOfOrderTriggerIgnored ==
    /\ (evt.id = sl_bt_evt_system_external_signal_id
          /\ ~BitTest(evt.extsignals, OwnTrigger(currentState)))
         => (temp_nextState = currentState /\ NoHardwareCall)
    /\ temp_nextState # currentState
         => (evt.id = sl_bt_evt_system_external_signal_id
               /\ BitTest(evt.extsignals, OwnTrigger(currentState)))

C5_Witness ==
    /\ evt = [id |-> sl_bt_evt_system_external_signal_id,
              extsignals |-> 2 ^ I2C_TRANSFER_COMPLETE_BIT_POS]
    /\ pre.open /\ pre.ok
    /\ currentState = waitForSi7021POR
    /\ temp_nextState = waitForSi7021POR
    /\ acts = <<>>

\* the last dispatch was the read-complete transition
ReadCompleteDispatched ==
    /\ LastPreconditions
    /\ currentState = waitForI2CReadTransfer
    /\ BitTest(evt.extsignals, I2C_TRANSFER_COMPLETE_BIT_POS)

\* C6: on the read-complete transition the indication is sent at once exactly when
\* none is in flight and the queue is empty, and is queued once otherwise.
C6_SendIffNoneInFlightAndQueueEmpty ==
    ReadCompleteDispatched =>
        IF ~pre.inflight /\ pre.depth = 0
          THEN /\ CountCalls(acts, "sl_bt_gatt_server_send_indication") = 1
               /\ CountCalls(acts, "write_queue") = 0
          ELSE /\ CountCalls(acts, "sl_bt_gatt_server_send_indication") = 0
               /\ CountCalls(acts, "write_queue") = 1

\* the last dispatch brought the read-complete trigger with the connection closed
ReadCompleteWhileClosed ==
    /\ evt.id = sl_bt_evt_system_external_signal_id
    /\ BitTest(evt.extsignals, I2C_TRANSFER_COMPLETE_BIT_POS)
    /\ currentState = waitForI2CReadTransfer
    /\ ~pre.open

\* C7 as stated: with the connection closed the read-complete trigger still moves
\* the machine to stateIdle and writes the attribute, sends and queues nothing and
\* clears the display.
C7_ClosedConnectionStillCompletes ==
    ReadCompleteWhileClosed =>
        /\ temp_nextState = stateIdle
        /\ "sl_bt_gatt_server_write_attribute_value" \in CallNames(acts)
        /\ "sl_bt_gatt_server_send_indication" \notin CallNames(acts)
        /\ "write_queue" \notin CallNames(acts)
        /\ display_tempvalue = ""

\* C7 amended: with the connection closed the read-complete trigger leaves the
\* machine in waitForI2CReadTransfer, writes no attribute, sends and queues
\* nothing, and clears the display.
C7_ClosedConnectionHoldsState ==
    ReadCompleteWhileClosed =>
        /\ temp_nextState = waitForI2CReadTransfer
        /\ acts = <<Call("displayPrintf_clear", 0)>>
        /\ display_tempvalue = ""

C7_Witness ==
    /\ ReadCompleteWhileClosed
    /\ pre.ok
    /\ temp_nextState = waitForI2CReadTransfer
    /\ si7021_on

\* C8: a dispatch with a precondition false (not an external-signal event, or the
\* connection closed, or indications not armed) leaves the state as it is and
\* makes no power, timer, bus, attribute, indication or queue call.
C8_NoTransitionWithoutPreconditions ==
    (Dispatched /\ ~LastPreconditions) =>
        /\ temp_nextState = currentState
        /\ NoHardwareCall

C8_Witness ==
    /\ evt = [id |-> sl_bt_evt_system_external_signal_id,
              extsignals |-> 2 ^ LETIMERCOMP1_BIT_POS]
    /\ pre.open /\ ~pre.ok
    /\ currentState = waitForSi7021Conversion
    /\ temp_nextState = waitForSi7021Conversion

\* C9 as stated: a dispatch with any precondition false clears the displayed value.
C9_AnyFalsePreconditionClearsDisplay ==
    (Dispatched /\ ~LastPreconditions) =>
        /\ display_tempvalue = ""
        /\ "displayPrintf_clear" \in CallNames(acts)

\* C9 amended: a dispatch with the connection closed or indications not armed
\* clears the displayed value; a dispatch of another event than an external signal
\* with the connection open and indications armed leaves the display as it is.
C9_ClosedOrUnarmedClearsDisplay ==
    /\ (Dispatched /\ (~pre.open \/ ~pre.ok)) =>
         /\ display_tempvalue = ""
         /\ acts = <<Call("displayPrintf_clear", 0)>>
    /\ (Dispatched /\ evt.id # sl_bt_evt_system_external_signal_id
          /\ pre.open /\ pre.ok) =>
         /\ display_tempvalue = pre.display
         /\ acts = <<>>

C9_Witness ==
    /\ Dispatched
    /\ ~pre.open /\ pre.ok
    /\ pre.display = "Temp"
    /\ display_tempvalue = ""

\* --------------------------------------- properties: discovery machine
Reverse(seq) == [i \in 1 .. Len(seq) |-> seq[Len(seq) + 1 - i]]

\* Health Thermometer service 0x1809 and Temperature Measurement 0x2A1C, low byte first
ThermometerServiceUuid == <<6153 % 256, 6153 \div 256>>
TemperatureMeasurementUuid == <<10780 % 256, 10780 \div 256>>
\* 00000001-38c8-433e-87ec-652a2d136289 and 00000002-..., last byte first
ButtonServiceUuid ==
    Reverse(<<0, 0, 0, 1, 56, 200, 67, 62, 135, 236, 101, 42, 45, 19, 98, 137>>)
ButtonCharacteristicUuid ==
    Reverse(<<0, 0, 0, 2, 56, 200, 67, 62, 135, 236, 101, 42, 45, 19, 98, 137>>)

\* the calls of each row of the discovery table, given the handles reported so far
ExpectedDiscoveryCalls(step, svc, chr) ==
    CASE step = 1 ->
           <<DCall("sl_bt_gatt_discover_primary_services_by_uuid", 0,
                   ThermometerServiceUuid)>>
      [] step = 2 ->
           <<DCall("sl_bt_gatt_discover_characteristics_by_uuid", svc,
                   TemperatureMeasurementUuid)>>
      [] step = 3 ->
           <<DCall("sl_bt_gatt_set_characteristic_notification", chr, <<>>)>>
      [] step = 4 ->
           <<DCall("displayPrintf", 0, <<>>),
             DCall("sl_bt_gatt_discover_primary_services_by_uuid", 0, ButtonServiceUuid)>>
      [] step = 5 ->
           <<DCall("sl_bt_gatt_discover_characteristics_by_uuid", svc,
                   ButtonCharacteristicUuid)>>
      [] step = 6 ->
           <<DCall("sl_bt_gatt_set_characteristic_notification", chr, <<>>)>>

DiscoveryStates == <<State_1, State_2, State_3, State_4, State_5, State_6, State_7>>

DiscDispatchStep == UNCHANGED <<serviceHandle, characteristicHandle>>

DiscSessionUnchanged ==
    UNCHANGED <<serviceHandle, characteristicHandle, serviceHandleHTM,
                characteristicHandleHTM, serviceHandleButton,
                characteristicHandleButton, isIndicationOnButton, display_connection>>

\* C11: in State_7 a dispatch of any event but connection-closed leaves State_7,
\* makes no call and changes no session field; connection-closed leads to State_1
\* (and also makes no call and changes no session field).
C11_State7IdleUntilClosed ==
    [][(disc_nextState = State_7 /\ DiscDispatchStep) =>
          /\ disc_evt' \in DiscEvents
          /\ disc_nextState' = IF disc_evt'.id = sl_bt_evt_connection_closed_id
                                 THEN State_1 ELSE State_7
          /\ disc_acts' = <<>>
          /\ disc_sc' = NoStatus
          /\ DiscSessionUnchanged]_vars

C11_Witness ==
    /\ disc_currentState = State_7
    /\ disc_evt.id = sl_bt_evt_gatt_procedure_completed_id
    /\ disc_nextState = State_7
    /\ isIndicationOnButton

TableTrigger(st) ==
    IF st = State_1 THEN sl_bt_evt_connection_opened_id
    ELSE IF st = State_7 THEN sl_bt_evt_connection_closed_id
    ELSE sl_bt_evt_gatt_procedure_completed_id

TableNext(st) ==
    CHOOSE n \in Discovery_States_t :
        \E i \in 1 .. 7 : DiscoveryStates[i] = st /\ DiscoveryStates[(i % 7) + 1] = n

\* C14: whatever status the discovery and notification calls return, the next state
\* is the table's for the state and the event received, and isIndicationOnButton
\* is set on State_6 -> State_7.
C14_AdvanceWhateverTheStatus ==
    disc_evt # NoEvent =>
        /\ disc_nextState = IF disc_evt.id = TableTrigger(disc_currentState)
                              THEN TableNext(disc_currentState)
                              ELSE disc_currentState
        /\ (disc_currentState = State_6
              /\ disc_evt.id = sl_bt_evt_gatt_procedure_completed_id)
             => isIndicationOnButton
        /\ (disc_evt.id = TableTrigger(disc_currentState) /\ disc_currentState # State_7)
             => disc_sc \in StatusCodes

C14_Witness ==
    /\ disc_sc = SL_STATUS_FAIL
    /\ disc_currentState = State_6
    /\ disc_evt.id = sl_bt_evt_gatt_procedure_completed_id
    /\ disc_nextState = State_7
    /\ isIndicationOnButton

\* ---------------------------------- properties: publication and power
PublishCallNames ==
    {"sl_bt_gatt_server_write_attribute_value", "sl_bt_gatt_server_send_indication"}

\* the last dispatch was a read-complete under the preconditions
ReadCompleteFired ==
    /\ Dispatched
    /\ LastPreconditions
    /\ currentState = waitForI2CReadTransfer
    /\ (evt.extsignals \div 4) % 2 = 1

\* a dispatch of a timer underflow: the session fields, which every change of the
\* session alters, stay as they are
UnderflowDispatchStep ==
    /\ evt'.id = sl_bt_evt_system_external_signal_id
    /\ evt'.extsignals % 2 = 1
    /\ UNCHANGED <<connection_open, ok_to_send_htm_indications,
                   indication_in_flight, queue_depth>>

\* C13: whatever status the attribute write and the indication return, the
\* read-complete transition ends in stateIdle; each of the two calls is made at
\* most once in a dispatch and in no dispatch but a read-complete; and from
\* stateIdle the next timer underflow dispatched under the preconditions leads to
\* waitForSi7021POR without either call.
C13_FailedPublishStillEndsCycle ==
    /\ [](Dispatched =>
            /\ \A n \in PublishCallNames : CountCalls(acts, n) <= 1
            /\ ~ReadCompleteFired => CallNames(acts) \cap PublishCallNames = {}
            /\ ReadCompleteFired =>
                 /\ temp_nextState = stateIdle
                 /\ temp_sc.write \in {SL_STATUS_OK, SL_STATUS_FAIL}
                 /\ CountCalls(acts, "sl_bt_gatt_server_write_attribute_value") = 1
                 /\ (CountCalls(acts, "sl_bt_gatt_server_send_indication") = 1)
                      <=> (temp_sc.ind \in {SL_STATUS_OK, SL_STATUS_FAIL}))
    /\ [][(temp_nextState = stateIdle /\ connection_open
             /\ ok_to_send_htm_indications /\ UnderflowDispatchStep) =>
            /\ temp_nextState' = waitForSi7021POR
            /\ CallNames(acts') \cap PublishCallNames = {}]_vars

C13_Witness ==
    /\ ReadCompleteFired
    /\ temp_sc.write = SL_STATUS_FAIL
    /\ temp_sc.ind = SL_STATUS_FAIL
    /\ temp_nextState = stateIdle

\* C20: the sensor is powered exactly when the state is not stateIdle; a dispatch
\* calls si7021TurnOn only on stateIdle -> waitForSi7021POR and si7021TurnOff only
\* on waitForI2CReadTransfer -> stateIdle.
C20_SensorPoweredIffNotIdle ==
    /\ si7021_on <=> (temp_nextState # stateIdle)
    /\ Dispatched =>
         /\ CountCalls(acts, "si7021TurnOn") =
              (IF currentState = stateIdle /\ temp_nextState = waitForSi7021POR
                 THEN 1 ELSE 0)
         /\ CountCalls(acts, "si7021TurnOff") =
              (IF currentState = waitForI2CReadTransfer /\ temp_nextState = stateIdle
                 THEN 1 ELSE 0)

C20_Witness ==
    /\ Dispatched
    /\ ~pre.open
    /\ currentState = waitForSi7021Conversion
    /\ temp_nextState = waitForSi7021Conversion
    /\ si7021_on

\* ------------------------------------------- properties: the decode
\* the 24-bit mantissa and the 8-bit exponent of an encoded reading, signed
Mantissa24(flt) ==
    LET m == (flt.hi % 256) * 65536 + flt.lo
    IN  IF m >= 2 ^ 23 THEN m - 2 ^ 24 ELSE m

Exponent8(flt) ==
    LET x == flt.hi \div 256
    IN  IF x >= 128 THEN x - 256 ELSE x

\* raw * 175.72 / 65536 - 46.85 in thousandths of a degree, rounded down
ExactMillidegrees(raw) ==
    LET num == raw * 17572 - 307036160
        whole == num \div 6553600
        rest == num % 6553600
    IN  whole * 1000 + (rest * 10) \div 65536

AbsDiff(a, b) == IF a >= b THEN a - b ELSE b - a

\* C17 as stated: for every 16-bit raw code the encoded reading has exponent -3
\* and a mantissa that is the decoded temperature in thousandths of a degree (to
\* a hundredth of a degree); raw code 27273 gives a mantissa of about 26990.
C17_BufferHoldsMillidegrees ==
    htm_temperature_flt # [hi |-> 0, lo |-> 0] =>
        /\ Exponent8(htm_temperature_flt) = 0 - 3
        /\ AbsDiff(Mantissa24(htm_temperature_flt), ExactMillidegrees(Si7021_data)) <= 10
        /\ Si7021_data = 27273 =>
             AbsDiff(Mantissa24(htm_temperature_flt), 26990) <= 10

\* --------------------------- properties: the scheduler under interleaving
\* C15 as stated: the consumer's reads of the pending set and its clearing of a bit
\* are one critical section, so once a call has read the set nothing changes it
\* until the call's own clear.
C15_ReadAndClearInOneCriticalSection ==
    [][/\ pc \in {"L181", "L183"} => SchedulerEvents' = SchedulerEvents
       /\ (pc = "L188" /\ SchedulerEvents' # SchedulerEvents) => pc' = "L202"]_vars

\* C19: in every interleaving the only step that clears a bit is the consumer's
\* critical section, and it clears the bit of the kind it returns and no other;
\* when the call returns, every other kind posted before or during the call and
\* not yet consumed is still pending.
C19_NoPostingLost ==
    /\ [](pc = "L202" =>
            \A k \in SchedKinds :
                (postCount[k] > 0
                   /\ (ReturnEvent = EVENT_NONE \/ k # KindBit(ReturnEvent)))
                  => BitTest(SchedulerEvents, k))
    /\ [][\A b \in AllBits :
              (BitTest(SchedulerEvents, b) /\ ~BitTest(SchedulerEvents', b)) =>
                  /\ pc = "L188" /\ pc' = "L202"
                  /\ ReturnEvent # EVENT_NONE
                  /\ b = KindBit(ReturnEvent)]_vars

C19_Witness ==
    /\ pc = "L202"
    /\ interleaved
    /\ entryEvents = 2
    /\ ReturnEvent = EVENT_LETIMER_COMP1
    /\ SchedulerEvents = 5

\* ------------------------------------ properties: liveness of the consumer
Pending(ev) == BitTest(SchedulerEvents, KindBit(ev))
Returned(ev) == pc = "L202" /\ ReturnEvent = ev

C18_CycleAlwaysCompletes ==
    (<>[](connection_open /\ ok_to_send_htm_indications))
        => ((temp_nextState # stateIdle) ~> (temp_nextState = stateIdle))

\* ------------------------------- properties: one transition per dispatch
MaskHas(mask, pos) == (mask \div (2 ^ pos)) % 2 = 1

\* the next state of each state in the cycle
TableSuccessor(st) ==
    CASE st = stateIdle -> waitForSi7021POR
      [] st = waitForSi7021POR -> waitForI2CWriteTransfer
      [] st = waitForI2CWriteTransfer -> waitForSi7021Conversion
      [] st = waitForSi7021Conversion -> waitForI2CReadTransfer
      [] st = waitForI2CReadTransfer -> stateIdle

\* the calls of each state's row of the transition table
RowCallNames(st) ==
    CASE st = stateIdle -> {"si7021TurnOn", "timerWaitUs_irq"}
      [] st = waitForSi7021POR -> {"I2C_Write_Data_itr"}
      [] st = waitForI2CWriteTransfer -> {"NVIC_DisableIRQ", "timerWaitUs_irq"}
      [] st = waitForSi7021Conversion -> {"I2C_Read_Data_irq"}
      [] st = waitForI2CReadTransfer ->
           {"NVIC_DisableIRQ", "si7021TurnOff", "I2C_Get_Data",
            "sl_bt_gatt_server_write_attribute_value",
            "sl_bt_gatt_server_send_indication", "write_queue",
            "displayPrintf_Temp", "displayPrintf_clear"}

\* a step that dispatches an event: the connection and the arming stay, no
\* indication is confirmed and the queue gives nothing up
DispatchStep ==
    /\ UNCHANGED <<connection_open, ok_to_send_htm_indications>>
    /\ indication_in_flight => indication_in_flight'
    /\ queue_depth' >= queue_depth

\* C21: whatever bits the mask of a dispatched event carries, the dispatch moves
\* the machine to the successor of its state when the preconditions hold and the
\* mask carries that state's trigger bit, and leaves the state otherwise; it makes
\* the calls of that state's row only, each once; and a later dispatch whose own
\* mask lacks the trigger of the state reached makes no transition.
C21_OneTransitionPerDispatch ==
    /\ [](Dispatched =>
            /\ temp_nextState =
                 IF LastPreconditions /\ MaskHas(evt.extsignals, OwnTrigger(currentState))
                   THEN TableSuccessor(currentState) ELSE currentState
            /\ CallNames(acts) \ {"displayPrintf_clear"} \subseteq RowCallNames(currentState)
            /\ \A n \in RowCallNames(currentState) \ {"displayPrintf_clear"} :
                   CountCalls(acts, n) <= 1)
    /\ [][(DispatchStep /\ ~MaskHas(evt'.extsignals, OwnTrigger(temp_nextState)))
            => temp_nextState' = temp_nextState]_vars

C21_Witness ==
    /\ LastPreconditions
    /\ evt.extsignals = 7
    /\ currentState = waitForSi7021POR
    /\ temp_nextState = waitForI2CWriteTransfer
    /\ CallNames(acts) = {"I2C_Write_Data_itr"}

\* --------------------------- properties: one hardware operation at a time
TimerCalls == {"timerWaitUs_irq"}
TransferCalls == {"I2C_Write_Data_itr", "I2C_Read_Data_irq"}

StartedOperations(calls) ==
    {i \in 1 .. Len(calls) : calls[i][1] \in TimerCalls \cup TransferCalls}

\* C22: a timed wait and a bus transfer are never pending together; a wait is
\* pending only in waitForSi7021POR and waitForSi7021Conversion and is armed only
\* on entering them, a transfer only in waitForI2CWriteTransfer and
\* waitForI2CReadTransfer and is issued only on entering them; and a dispatch
\* starts at most one operation, and none while an operation is pending whose
\* completion this dispatch does not deliver.
C22_OneOperationOutstanding ==
    /\ [](/\ ~(timer_pending /\ i2c_pending)
          /\ timer_pending =>
               temp_nextState \in {waitForSi7021POR, waitForSi7021Conversion}
          /\ i2c_pending =>
               temp_nextState \in {waitForI2CWriteTransfer, waitForI2CReadTransfer}
          /\ Dispatched =>
               /\ Cardinality(StartedOperations(acts)) <= 1
               /\ CallNames(acts) \cap TimerCalls # {} =>
                    /\ temp_nextState # currentState
                    /\ temp_nextState \in {waitForSi7021POR, waitForSi7021Conversion}
               /\ CallNames(acts) \cap TransferCalls # {} =>
                    /\ temp_nextState # currentState
                    /\ temp_nextState \in
                         {waitForI2CWriteTransfer, waitForI2CReadTransfer})
    /\ [][(DispatchStep /\ StartedOperations(acts') # {}) =>
            /\ timer_pending => MaskHas(evt'.extsignals, 1)
            /\ i2c_pending => MaskHas(evt'.extsignals, 2)]_vars

C22_Witness ==
    /\ evt.extsignals = 5
    /\ currentState = waitForI2CWriteTransfer
    /\ temp_nextState = waitForSi7021Conversion
    /\ timer_pending
    /\ ~i2c_pending

====
